---- MODULE Spec2Model ----
(***************************************************************************)
(* A state-machine model of the quiz-app server: the party registry        *)
(* (party.ts), the ready barrier and the question rounds (quiz.ts) and the *)
(* socket handlers that drive them.                                        *)
(*                                                                         *)
(* Scheduling.  The server is one Node.js process holding one Redis client *)
(* (app.ts:22).  A handler runs without interruption up to its next        *)
(* `await`.  A Redis command takes effect in the order it was sent, and    *)
(* its reply resumes the awaiting handler later, replies arriving in the   *)
(* order of the commands.  So every command's effect is applied in the     *)
(* step that sends it, and the variable `replies` is the FIFO of handlers  *)
(* suspended on an awaited reply, each holding the value it read.  Client  *)
(* messages, interval ticks and timeouts interleave freely with replies.   *)
(***************************************************************************)
EXTENDS Integers, Sequences, FiniteSets, TLC

Users   == {"A", "B"}
Sockets == {"s1", "s2"}
Parties == {"P"}
Names   == {"gen", "nick"}

\* Redis nil / JavaScript undefined
Nil == "nil"

\* Bounds on the number of client messages of each kind
MaxJoins   == 3
MaxKicks   == 1
MaxRenames == 1
\* Bound on the does-party-exist messages
MaxExists  == 1
\* Bound on the number of handlers suspended on a Redis reply at one time
MaxInFlight == 2
\* Bounds on the start-quiz and user-ready messages
MaxStarts == 2
MaxReady  == 3
\* Bounds of a quiz: questions fetched, answer messages, interval callbacks
NumQuestions == 2
MaxAnswers   == 2
MaxTicks     == 2
\* Bound on the join messages counted while a quiz runs (one precedes it)
MaxLateJoins == 2
\* Number of clock steps that redisExpireTime is divided into
ExpireSteps == 2
Questions == 1..NumQuestions

VARIABLES
  \* ---- Redis ----
  members,       \* `${partyId}:members`        set
  leader,        \* `${partyId}:party-leader`   scalar
  displayNames,  \* `${partyId}:display-names`  hash
  partyScore,    \* `score:${partyId}`          hash (fields; every value is 0)
  ttl,           \* clock steps each of these keys has left to live (0: no key)
  \* ---- server process ----
  rooms,         \* socket.join(partyId): the rooms of each connection
  readyFwd,      \* socket.on("user-ready") forwarders per connection and party
  replies,       \* handlers suspended on an awaited Redis reply, FIFO
  out,           \* what the last step emitted (broadcasts and socket emits)
  sent,          \* number of client messages of each kind received so far
  barriers,      \* the allUsersReady calls so far: snapshot, usersReady, listener
  \* ---- Redis, per quiz ----
  scoreKeys,     \* `score:${quizId}`  the fields of the hash, in insertion order
  scoreOf,       \* `score:${quizId}`  the value of each field
  answers,       \* `${quizId}:${questionNumber}:answers`  counter
  correctUsers,  \* `users-answered-correctly:${quizId}_${questionNumber}`  list
  \* ---- the quiz run of the start-quiz handler ----
  stage,         \* where the handler is suspended
  qn,            \* number of the question of the current loop iteration
  questions,     \* randomised_answers of each processed question
  ansHandler,    \* socket.once(`answer-${quizId}-${questionNumber}`) per connection
  ansListener,   \* eventEmitter.on(`answer-received-${quizId}-${questionNumber}`)
  allAnsOnce,    \* the two eventEmitter.once(`all-answers-received-...`) listeners
  timerOn,       \* setInterval of the question is running
  secondsLeft,   \* the timer's secondsLeft
  resolvedBy,    \* which promise settled Promise.any of the question
  \* ---- history, for stating the claims ----
  ticks,         \* interval callbacks run per question
  countedBy      \* per question and user id: INCRs caused by answers carrying it

storeParty == <<members, leader, displayNames, partyScore, ttl>>
conn       == <<rooms, readyFwd>>
storeQuiz  == <<scoreKeys, scoreOf, answers, correctUsers, countedBy>>
round      == <<ansHandler, ansListener, allAnsOnce, timerOn, secondsLeft,
                resolvedBy, ticks>>
coord      == <<stage, qn>>
quizRun    == <<storeQuiz, round, coord, questions>>
quizSide   == <<barriers, quizRun>>
vars       == <<members, leader, displayNames, partyScore, ttl, rooms, readyFwd,
                replies, out, sent, barriers, scoreKeys, scoreOf, answers,
                correctUsers, stage, qn, questions, ansHandler, ansListener, allAnsOnce,
                timerOn, secondsLeft, resolvedBy, ticks, countedBy>>

----------------------------------------------------------------------------
(* Helpers *)

awaiting(kind) == replies # <<>> /\ Head(replies).k = kind
resume(newOnes) == Tail(replies) \o newOnes
count(kind) == sent[kind]
accepting == Len(replies) < MaxInFlight
MsgKinds == {"join", "kick", "rename", "start", "ready", "answer", "exists"}
received(kind) == [sent EXCEPT ![kind] = @ + 1]

\* no quiz is running
NoQuiz ==
  /\ scoreKeys = <<>>
  /\ scoreOf = [u \in Users |-> 0]
  /\ answers = [q \in Questions |-> 0]
  /\ correctUsers = [q \in Questions |-> <<>>]
  /\ stage = "idle"
  /\ qn = 0
  /\ questions = [q \in Questions |-> <<>>]
  /\ ansHandler = [s \in Sockets |-> {}]
  /\ ansListener = [q \in Questions |-> FALSE]
  /\ allAnsOnce = [q \in Questions |-> FALSE]
  /\ timerOn = [q \in Questions |-> FALSE]
  /\ secondsLeft = [q \in Questions |-> 0]
  /\ resolvedBy = [q \in Questions |-> "none"]
  /\ ticks = [q \in Questions |-> 0]
  /\ countedBy = [q \in Questions |-> [u \in Users |-> 0]]

----------------------------------------------------------------------------
(* party.ts *)

\* party.ts:18-25  a generated default name
generateDefaultDisplayName == "gen"

\* party.ts:57  "If party has 0 members (ie, this is a new party)"
partyIsNewAlways(partyMembers) == TRUE
partyIsNew(partyMembers) == Cardinality(partyMembers) = 0

\* party.ts:33-36
assignPartyLeader(userId, partyId) == [leader EXCEPT ![partyId] = userId]

\* the keys of a party: member set, leader, display names, score hash
Keys == {"members", "leader", "names", "score"}

\* redis.expire(key, redisExpireTime) on a key of the party, and the same for
\* every key in keys
expire(t, partyId, key) == [t EXCEPT ![partyId][key] = ExpireSteps]
expireAll(t, partyId, keys) ==
  [t EXCEPT ![partyId] = [key \in Keys |-> IF key \in keys THEN ExpireSteps ELSE @[key]]]

\* Redis deletes a set or a hash with its last element
emptied(t, partyId, mem, names, score) ==
  [t EXCEPT ![partyId] =
     [key \in Keys |->
        CASE key = "members" /\ mem = {} -> 0
          [] key = "names" /\ (\A u \in Users : names[u] = Nil) -> 0
          [] key = "score" /\ score = {} -> 0
          [] OTHER -> @[key]]]

\* socket handler "join-party" / "request-new-party": socket.join, then
\* joinParty up to its first await (party.ts:56)
JoinPartyMsg(s, p, u) ==
  /\ accepting
  /\ count("join") < MaxJoins
  /\ sent' = received("join")
  /\ rooms' = [rooms EXCEPT ![s] = @ \cup {p}]
  /\ replies' = Append(replies, [k |-> "joinMembers", s |-> s, p |-> p, u |-> u,
                                 partyMembers |-> members[p]])
  /\ out' = <<>>
  /\ UNCHANGED <<storeParty, readyFwd, quizSide>>

\* party.ts:57-75  joinParty after the member set was read
joinParty ==
  /\ awaiting("joinMembers")
  /\ LET h == Head(replies) IN
     /\ leader' = IF partyIsNew(h.partyMembers)
                    THEN assignPartyLeader(h.u, h.p) ELSE leader
     /\ members' = [members EXCEPT ![h.p] = @ \cup {h.u}]
     /\ partyScore' = [partyScore EXCEPT ![h.p] = @ \cup {h.u}]
     \* party.ts:35, 62, 64
     /\ ttl' = expireAll(ttl, h.p, IF partyIsNew(h.partyMembers)
                                     THEN {"leader", "members", "score"}
                                     ELSE {"members", "score"})
     \* assignDisplayName up to its first await (party.ts:107)
     /\ replies' = resume(<<[k |-> "assignName", s |-> h.s, p |-> h.p, u |-> h.u,
                            name |-> displayNames[h.p][h.u]]>>)
     /\ out' = <<[e |-> "joined-party-id", to |-> h.s, p |-> h.p]>>
     /\ readyFwd' = [readyFwd EXCEPT ![h.s][h.p] = @ + 1]
  /\ UNCHANGED <<displayNames, rooms, sent, quizSide>>

\* party.ts:111-112  assignDisplayName after the existing name was read
assignDisplayName ==
  /\ awaiting("assignName")
  /\ LET h == Head(replies)
         name == IF h.name # Nil THEN h.name ELSE generateDefaultDisplayName IN
     /\ displayNames' = [displayNames EXCEPT ![h.p][h.u] = name]
     /\ ttl' = expire(ttl, h.p, "names")
     /\ replies' = resume(<<[k |-> "nameSet", s |-> h.s, p |-> h.p, u |-> h.u]>>)
  /\ out' = <<>>
  /\ UNCHANGED <<members, leader, partyScore, conn, sent, quizSide>>

\* socket handler "change-display-name" with changeDisplayName (party.ts:123-131)
ChangeDisplayNameMsg(s, name, u, p) ==
  /\ accepting
  /\ count("rename") < MaxRenames
  /\ sent' = received("rename")
  /\ displayNames' = [displayNames EXCEPT ![p][u] = name]
  /\ ttl' = expire(ttl, p, "names")
  /\ replies' = Append(replies, [k |-> "nameSet", s |-> s, p |-> p, u |-> u])
  /\ out' = <<>>
  /\ UNCHANGED <<members, leader, partyScore, conn, quizSide>>

\* the awaited hset returned: sendUserDisplayName up to its await (party.ts:91)
nameWritten ==
  /\ awaiting("nameSet")
  /\ LET h == Head(replies) IN
     replies' = resume(<<[k |-> "sendName", s |-> h.s, p |-> h.p,
                          name |-> displayNames[h.p][h.u]]>>)
  /\ out' = <<>>
  /\ UNCHANGED <<storeParty, conn, sent, quizSide>>

\* party.ts:92, then sendListOfPartyMembers up to its first await (party.ts:144)
sendUserDisplayName ==
  /\ awaiting("sendName")
  /\ LET h == Head(replies) IN
     /\ out' = <<[e |-> "display-name", to |-> h.s, name |-> h.name]>>
     /\ replies' = resume(<<[k |-> "listNames", p |-> h.p, removed |-> Nil,
                            names |-> displayNames[h.p]]>>)
  /\ UNCHANGED <<storeParty, conn, sent, quizSide>>

\* party.ts:145  the names hash arrived, the leader is read
listReadLeader ==
  /\ awaiting("listNames")
  /\ LET h == Head(replies) IN
     replies' = resume(<<[k |-> "listLeader", p |-> h.p, removed |-> h.removed,
                          names |-> h.names,
                          partyLeader |-> leader[h.p]]>>)
  /\ out' = <<>>
  /\ UNCHANGED <<storeParty, conn, sent, quizSide>>

\* party.ts:147-154  the roster built from the names hash and the leader
roster(names, partyLeader) ==
  { [id |-> u, name |-> names[u], leader |-> (partyLeader = u)] :
      u \in {x \in Users : names[x] # Nil} }

\* party.ts:147-156
sendListOfPartyMembers ==
  /\ awaiting("listLeader")
  /\ LET h == Head(replies) IN
     out' = <<[e |-> "party-members", p |-> h.p,
               members |-> roster(h.names, h.partyLeader)]>>
  /\ replies' = resume(<<>>)
  /\ UNCHANGED <<storeParty, conn, sent, quizSide>>

\* socket handler "kick-party-member": removePartyMember up to its first await
\* (party.ts:173-176, getDisplayName reads the names hash)
KickPartyMemberMsg(u, p) ==
  /\ accepting
  /\ count("kick") < MaxKicks
  /\ sent' = received("kick")
  /\ replies' = Append(replies, [k |-> "kickName", p |-> p, u |-> u,
                                 name |-> displayNames[p][u]])
  /\ out' = <<>>
  /\ UNCHANGED <<storeParty, conn, quizSide>>

\* party.ts:177-181
removePartyMember ==
  /\ awaiting("kickName")
  /\ LET h == Head(replies) IN
     /\ out' = <<[e |-> "user-leaving-party", p |-> h.p, id |-> h.u, name |-> h.name]>>
     /\ members' = [members EXCEPT ![h.p] = @ \ {h.u}]
     /\ partyScore' = [partyScore EXCEPT ![h.p] = @ \ {h.u}]
     /\ displayNames' = [displayNames EXCEPT ![h.p][h.u] = Nil]
     \* no expire is sent
     /\ ttl' = emptied(ttl, h.p, members'[h.p], displayNames'[h.p], partyScore'[h.p])
     /\ replies' = resume(<<[k |-> "kickDone", p |-> h.p, u |-> h.u]>>)
  /\ UNCHANGED <<leader, conn, sent, quizSide>>

\* party.ts:183  the awaited hdel returned; removed names the user whose
\* removal this list follows
removedThenList ==
  /\ awaiting("kickDone")
  /\ LET h == Head(replies) IN
     replies' = resume(<<[k |-> "listNames", p |-> h.p, removed |-> h.u,
                          names |-> displayNames[h.p]]>>)
  /\ out' = <<>>
  /\ UNCHANGED <<storeParty, conn, sent, quizSide>>

----------------------------------------------------------------------------
(* The party registry under joins, renames and kicks *)

InitParty ==
  /\ members = [p \in Parties |-> {}]
  /\ leader = [p \in Parties |-> Nil]
  /\ displayNames = [p \in Parties |-> [u \in Users |-> Nil]]
  /\ partyScore = [p \in Parties |-> {}]
  /\ ttl = [p \in Parties |-> [key \in Keys |-> 0]]
  /\ rooms = [s \in Sockets |-> {}]
  /\ readyFwd = [s \in Sockets |-> [p \in Parties |-> 0]]
  /\ replies = <<>>
  /\ out = <<>>
  /\ sent = [m \in MsgKinds |-> 0]
  /\ barriers = <<>>
  /\ NoQuiz

NextParty ==
  \/ \E s \in Sockets, p \in Parties, u \in Users : JoinPartyMsg(s, p, u)
  \/ joinParty
  \/ assignDisplayName
  \/ \E s \in Sockets, u \in Users, p \in Parties : ChangeDisplayNameMsg(s, "nick", u, p)
  \/ nameWritten
  \/ sendUserDisplayName
  \/ listReadLeader
  \/ sendListOfPartyMembers
  \/ \E u \in Users, p \in Parties : KickPartyMemberMsg(u, p)
  \/ removePartyMember
  \/ removedThenList

SpecParty == InitParty /\ [][NextParty]_vars

----------------------------------------------------------------------------
(* The party registry while time passes *)

\* a key of the party that this clock step expires
expiring(p, key) == ttl[p][key] = 1

\* one clock step passes with no handler suspended (a handler takes
\* milliseconds, a clock step a fraction of redisExpireTime): every key has
\* one step less to live and Redis deletes the keys that have none left
TimePasses ==
  /\ replies = <<>>
  /\ \E p \in Parties, key \in Keys : ttl[p][key] > 0
  /\ ttl' = [p \in Parties |-> [key \in Keys |->
                IF ttl[p][key] > 0 THEN ttl[p][key] - 1 ELSE 0]]
  /\ members' = [p \in Parties |-> IF expiring(p, "members") THEN {} ELSE members[p]]
  /\ leader' = [p \in Parties |-> IF expiring(p, "leader") THEN Nil ELSE leader[p]]
  /\ displayNames' = [p \in Parties |->
                        IF expiring(p, "names") THEN [u \in Users |-> Nil]
                                                ELSE displayNames[p]]
  /\ partyScore' = [p \in Parties |-> IF expiring(p, "score") THEN {} ELSE partyScore[p]]
  /\ out' = <<>>
  /\ UNCHANGED <<conn, replies, sent, quizSide>>

NextExpiry ==
  \/ NextParty
  \/ TimePasses

SpecExpiry == InitParty /\ [][NextExpiry]_vars

----------------------------------------------------------------------------
(* does-party-exist (part_001:133-137, party.ts:191-198) *)

\* party.ts:196  partyMembers.length > 0
partyExistsIfSeveral(partyMembers) == Cardinality(partyMembers) > 1
partyExists(partyMembers) == Cardinality(partyMembers) > 0

\* socket handler "does-party-exist": doesPartyExist up to its await
\* (party.ts:195).  `quiet` records that no handler was suspended when the
\* message arrived
DoesPartyExistMsg(s, p) ==
  /\ accepting
  /\ count("exists") < MaxExists
  /\ sent' = received("exists")
  /\ replies' = Append(replies, [k |-> "existsMembers", s |-> s, p |-> p,
                                 partyMembers |-> members[p],
                                 quiet |-> replies = <<>>])
  /\ out' = <<>>
  /\ UNCHANGED <<storeParty, conn, quizSide>>

\* party.ts:196-197 and part_001:136
doesPartyExist ==
  /\ awaiting("existsMembers")
  /\ LET h == Head(replies) IN
     out' = <<[e |-> "party-exists", to |-> h.s, p |-> h.p,
               exists |-> partyExists(h.partyMembers), quiet |-> h.quiet]>>
  /\ replies' = resume(<<>>)
  /\ UNCHANGED <<storeParty, conn, sent, quizSide>>

NextExists ==
  \/ \E s \in Sockets, p \in Parties, u \in Users : JoinPartyMsg(s, p, u)
  \/ joinParty
  \/ assignDisplayName
  \/ nameWritten
  \/ sendUserDisplayName
  \/ listReadLeader
  \/ sendListOfPartyMembers
  \/ \E u \in Users, p \in Parties : KickPartyMemberMsg(u, p)
  \/ removePartyMember
  \/ removedThenList
  \/ \E s \in Sockets, p \in Parties : DoesPartyExistMsg(s, p)
  \/ doesPartyExist

SpecExists == InitParty /\ [][NextExists]_vars

----------------------------------------------------------------------------
(* The ready barrier: start-quiz handler and quiz.ts allUsersReady *)

\* JavaScript NaN (parseInt of a missing or non-numeric time); any number
\* taking part in arithmetic with it is NaN again
NaN == -1000

\* the `time` option of start-quiz as clients may send it
TimeOptions == {"0", "1", "2", "abc", Nil}

\* parseInt(time) on the options above
parseInt(time) ==
  CASE time = "0" -> 0
    [] time = "1" -> 1
    [] time = "2" -> 2
    [] OTHER -> NaN

times(x, y) == IF x = NaN \/ y = NaN THEN NaN ELSE x * y
dividedBy(x, y) == IF x = NaN \/ y = NaN THEN NaN ELSE x \div y

\* start-quiz handler up to the first await of allUsersReady (quiz.ts:200)
StartQuizMsg(s, p, time) ==
  /\ accepting
  /\ count("start") < MaxStarts
  /\ sent' = received("start")
  /\ replies' = Append(replies, [k |-> "readyMembers", s |-> s, p |-> p,
                                 questionTimeout |-> times(parseInt(time), 1000),
                                 allUsers |-> members[p]])
  /\ out' = <<>>
  /\ UNCHANGED <<storeParty, conn, quizSide>>

\* quiz.ts:201-221  the snapshot arrived: prompt the party and start listening
allUsersReady ==
  /\ awaiting("readyMembers")
  /\ LET h == Head(replies) IN
     /\ barriers' = Append(barriers,
                      [p |-> h.p, s |-> h.s, questionTimeout |-> h.questionTimeout,
                       allUsers |-> h.allUsers, usersReady |-> <<>>,
                       resolved |-> FALSE])
     /\ out' = <<[e |-> "ready-prompt", p |-> h.p]>>
  /\ replies' = resume(<<>>)
  /\ UNCHANGED <<storeParty, conn, sent, quizRun>>

\* the barriers whose listener is registered on `${partyId}-user-ready`
listening(p) ==
  SelectSeq([i \in 1..Len(barriers) |-> i],
            LAMBDA b : barriers[b].p = p /\ ~barriers[b].resolved)

\* one emit of `${partyId}-user-ready`: every registered listener runs up to
\* its await of getDisplayName (quiz.ts:207)
emitUserReady(p, u) ==
  [i \in 1..Len(listening(p)) |->
     [k |-> "readyName", b |-> listening(p)[i], u |-> u, name |-> displayNames[p][u]]]

RECURSIVE repeat(_, _)
repeat(calls, n) == IF n = 0 THEN <<>> ELSE calls \o repeat(calls, n - 1)

RECURSIVE forwardUserReady(_, _, _)
\* party.ts:73-75  each forwarder of the connection emits once
forwardUserReady(s, u, ps) ==
  IF ps = {} THEN <<>>
  ELSE LET p == CHOOSE x \in ps : TRUE IN
       repeat(emitUserReady(p, u), readyFwd[s][p]) \o forwardUserReady(s, u, ps \ {p})

\* a client sends user-ready {userId} on connection s
UserReadyMsg(s, u) ==
  /\ accepting
  /\ count("ready") < MaxReady
  /\ forwardUserReady(s, u, Parties) # <<>>
  /\ sent' = received("ready")
  /\ replies' = replies \o forwardUserReady(s, u, Parties)
  /\ out' = <<>>
  /\ UNCHANGED <<storeParty, conn, quizSide>>

\* quiz.ts:208  usersReady.push
pushReady(usersReady, user) == Append(usersReady, user)

\* quiz.ts:210  usersReady.length === allUsers.length
barrierFull(usersReady, allUsers) == Len(usersReady) = Cardinality(allUsers)

\* quiz.ts:207-218  the listener after the display name arrived; what the
\* start-quiz handler does once its barrier completes is in quizRun
listenerReturns ==
  /\ awaiting("readyName")
  /\ LET h == Head(replies)
         b == h.b
         p == barriers[b].p
         ready == pushReady(barriers[b].usersReady, [id |-> h.u, name |-> h.name])
         full == barrierFull(ready, barriers[b].allUsers) IN
     /\ barriers' = [barriers EXCEPT ![b].usersReady = ready,
                                     ![b].resolved = @ \/ full]
     /\ out' = IF full
                 THEN <<[e |-> "all-users-ready", p |-> p, b |-> b]>>
                 ELSE <<[e |-> "percent-users-ready", p |-> p, b |-> b,
                         ready |-> Len(ready),
                         of |-> Cardinality(barriers[b].allUsers)],
                        [e |-> "these-users-ready", p |-> p, b |-> b,
                         users |-> ready]>>
  /\ replies' = resume(<<>>)
  /\ UNCHANGED <<storeParty, conn, sent>>

\* the listener alone: the barrier without the quiz that follows it
readyListener ==
  /\ listenerReturns
  /\ UNCHANGED quizRun

\* A party of A (leader, connection s1) and B (connection s2), formed by two
\* join-party messages that have run to completion
InitReady ==
  /\ members = [p \in Parties |-> {"A", "B"}]
  /\ leader = [p \in Parties |-> "A"]
  /\ displayNames = [p \in Parties |-> [u \in Users |-> IF u \in {"A", "B"} THEN "gen" ELSE Nil]]
  /\ partyScore = [p \in Parties |-> {"A", "B"}]
  /\ ttl = [p \in Parties |-> [key \in Keys |-> ExpireSteps]]
  /\ rooms = [s \in Sockets |-> IF s \in {"s1", "s2"} THEN Parties ELSE {}]
  /\ readyFwd = [s \in Sockets |-> [p \in Parties |-> IF s \in {"s1", "s2"} THEN 1 ELSE 0]]
  /\ replies = <<>>
  /\ out = <<>>
  /\ sent = [m \in MsgKinds |-> IF m = "join" THEN 2 ELSE 0]
  /\ barriers = <<>>
  /\ NoQuiz

NextReady ==
  \/ \E s \in Sockets, p \in Parties : StartQuizMsg(s, p, "1")
  \/ allUsersReady
  \/ \E s \in Sockets, u \in Users : UserReadyMsg(s, u)
  \/ readyListener
  \/ \E s \in Sockets, p \in Parties, u \in Users : JoinPartyMsg(s, p, u)
  \/ joinParty
  \/ assignDisplayName
  \/ nameWritten
  \/ sendUserDisplayName
  \/ listReadLeader
  \/ sendListOfPartyMembers
  \/ \E u \in Users, p \in Parties : KickPartyMemberMsg(u, p)
  \/ removePartyMember
  \/ removedThenList

SpecReady == InitReady /\ [][NextReady]_vars

\* a reply of the store resumes a handler of the party or of the barrier
PartyReplies ==
  \/ allUsersReady
  \/ readyListener
  \/ joinParty
  \/ assignDisplayName
  \/ nameWritten
  \/ sendUserDisplayName
  \/ listReadLeader
  \/ sendListOfPartyMembers
  \/ removePartyMember
  \/ removedThenList

\* the barrier with every reply of the store arriving, so that every
\* acknowledgement received is delivered to the listener; nothing is assumed
\* of what clients send
SpecReadyFair ==
  /\ SpecReady
  /\ WF_vars(PartyReplies)

----------------------------------------------------------------------------
(* The quiz: start-quiz handler after the barrier, and quiz.ts *)

\* the start-quiz call whose quiz is modelled: partyId, socket, questionTimeout
quizOf == barriers[1]

\* every question of the fetched batch has the correct answer "right"
Answers == {"right", "wrong"}
correct_answer(q) == "right"

\* quiz.ts:156-165
acceptAnyAnswer(clientAnswer, q) == TRUE
checkAnswer(clientAnswer, q) == clientAnswer = correct_answer(q)

\* the order in which Redis returns a set (SMEMBERS)
RECURSIVE smembers(_)
smembers(set) ==
  IF set = {} THEN <<>>
  ELSE LET x == CHOOSE y \in set : TRUE IN
       <<x>> \o smembers(set \ {x})

inSeq(x, seq) == \E i \in 1..Len(seq) : seq[i] = x

RECURSIVE hsetZero(_, _)
\* quiz.ts:560  users.forEach(user => redis.hset(`score:${quizId}`, user, 0))
hsetZero(keys, users) ==
  IF users = <<>> THEN keys
  ELSE hsetZero(IF inSeq(Head(users), keys) THEN keys ELSE Append(keys, Head(users)),
                Tail(users))

\* generateScorecard up to its first await (quiz.ts:426); q = 0 is the
\* scorecard before a question (no questionNumber)
scorecardRequest(q, pre) ==
  [k |-> "cardNames", q |-> q, pre |-> pre, names |-> displayNames[quizOf.p]]

\* quiz.ts:27, 24  the answers of the fetched questions
incorrect_answers(q) == <<"wrong", "other">>

\* quiz.ts:65-68 before the shuffle
unshuffled(q) == incorrect_answers(q) \o <<correct_answer(q)>>

\* the arrays shuffle() can return for an array (quiz.ts:65)
shuffle(array) ==
  {[i \in 1..Len(array) |-> array[f[i]]] :
     f \in {g \in [1..Len(array) -> 1..Len(array)] :
              \A i, j \in 1..Len(array) : g[i] = g[j] => i = j}}

\* the outcomes of the shuffles of one processQuestions call
Shuffles == [Questions -> UNION {shuffle(unshuffled(q)) : q \in Questions}]

\* quiz.ts:60-79  randomised_answers of every question, given the outcome of
\* the shuffles
processQuestions(shuffled) == [q \in Questions |-> shuffled[q]]

\* the shuffles leaving every array as it was
NotShuffled == [q \in Questions |-> unshuffled(q)]

\* quiz.ts:518-520  randomised_answers.findIndex(el => el === x), from 0
lastIndex(array, x) == Len(array) - 1
findIndex(array, x) ==
  IF \E i \in 1..Len(array) : array[i] = x
    THEN (CHOOSE i \in 1..Len(array) :
            array[i] = x /\ \A j \in 1..(i - 1) : array[j] # x) - 1
    ELSE -1

\* quiz.ts:609-614  socket.emit("error", message)
emitErrorMessageToRoom(socket, partyId) == <<[e |-> "error", p |-> partyId]>>
emitErrorMessageToSocket(socket, partyId) == <<[e |-> "error", to |-> socket]>>

\* the questions were fetched (ok) or getQuestions threw (quiz.ts:85-109):
\* start-quiz handler part_001:62-91 and quiz() up to its first await in
\* preQuestionProcedure (quiz.ts:581-585)
FetchQuestions(ok, shuffled) ==
  /\ stage = "fetch"
  /\ IF ok
       THEN /\ stage' = "pre"
            /\ qn' = 1
            /\ questions' = processQuestions(shuffled)
            /\ replies' = replies \o
                 <<[k |-> "seedMembers", users |-> smembers(members[quizOf.p])],
                   scorecardRequest(0, TRUE)>>
            /\ out' = <<[e |-> "new-quiz-id", p |-> quizOf.p]>>
       ELSE /\ stage' = "finished"
            /\ qn' = qn
            /\ questions' = questions
            /\ replies' = replies
            /\ out' = emitErrorMessageToSocket(quizOf.s, quizOf.p)
                        \o <<[e |-> "quiz-finished", p |-> quizOf.p]>>
  /\ UNCHANGED <<storeParty, conn, sent, barriers, storeQuiz, round>>

\* quiz.ts:559-561  setupQuizScoresHash after the member set arrived
setupQuizScoresHash ==
  /\ awaiting("seedMembers")
  /\ LET h == Head(replies) IN
     /\ scoreKeys' = hsetZero(scoreKeys, h.users)
     /\ scoreOf' = [u \in Users |-> IF inSeq(u, h.users) THEN 0 ELSE scoreOf[u]]
  /\ replies' = resume(<<>>)
  /\ out' = <<>>
  /\ UNCHANGED <<storeParty, conn, sent, barriers, answers, correctUsers, countedBy,
                 round, coord, questions>>

\* quiz.ts:427  the names arrived, the scores are read
scorecardReadScores ==
  /\ awaiting("cardNames")
  /\ LET h == Head(replies) IN
     replies' = resume(<<[k |-> "cardScores", q |-> h.q, pre |-> h.pre, names |-> h.names,
                          keys |-> scoreKeys, scores |-> scoreOf]>>)
  /\ out' = <<>>
  /\ UNCHANGED <<storeParty, conn, sent, quizSide>>

\* quiz.ts:428-432  the scores arrived, the correct-answerer list is read
scorecardReadCorrect ==
  /\ awaiting("cardScores")
  /\ LET h == Head(replies) IN
     replies' = resume(<<[k |-> "cardCorrect", q |-> h.q, pre |-> h.pre, names |-> h.names,
                          keys |-> h.keys, scores |-> h.scores,
                          correctUsers |-> IF h.q = 0 THEN <<>> ELSE correctUsers[h.q]]>>)
  /\ out' = <<>>
  /\ UNCHANGED <<storeParty, conn, sent, quizSide>>

RECURSIVE insertAheadOfTies(_, _)
\* as insertByScore, but ahead of the entries of equal score
insertAheadOfTies(x, sorted) ==
  IF sorted = <<>> THEN <<x>>
  ELSE IF Head(sorted).score > x.score
         THEN <<Head(sorted)>> \o insertAheadOfTies(x, Tail(sorted))
         ELSE <<x>> \o sorted

RECURSIVE insertByScore(_, _)
\* a stable sort by (a, b) => b.score - a.score, one element at a time
insertByScore(x, sorted) ==
  IF sorted = <<>> THEN <<x>>
  ELSE IF Head(sorted).score >= x.score
         THEN <<Head(sorted)>> \o insertByScore(x, Tail(sorted))
         ELSE <<x>> \o sorted

RECURSIVE sortByScore(_, _)
sortByScore(card, n) ==
  IF n = 0 THEN <<>> ELSE insertByScore(card[n], sortByScore(card, n - 1))

\* quiz.ts:436  correctUsers.includes(userId) || undefined
includesOrUndefined(seq, x) == IF inSeq(x, seq) THEN "true" ELSE "undefined"

\* quiz.ts:434-442
generateScorecard(h) ==
  LET card == [i \in 1..Len(h.keys) |->
                 [name |-> h.names[h.keys[i]], id |-> h.keys[i],
                  score |-> h.scores[h.keys[i]],
                  answeredCorrectly |-> includesOrUndefined(h.correctUsers, h.keys[i])]] IN
  sortByScore(card, Len(card))

scorecardEvent(h) ==
  [e |-> "updated-scorecard", p |-> quizOf.p, q |-> h.q, card |-> generateScorecard(h)]

\* quiz.ts:445-459  sendScorecard of postQuestionProcedure, which nobody awaits
sendScorecard ==
  /\ awaiting("cardCorrect")
  /\ ~Head(replies).pre
  /\ out' = <<scorecardEvent(Head(replies))>>
  /\ replies' = resume(<<>>)
  /\ UNCHANGED <<storeParty, conn, sent, quizSide>>

\* quiz.ts:127  let secondsLeft = timeout / 1000
timerStart(timeout) == dividedBy(timeout, 1000)

\* quiz.ts:369  io.in(partyId).sockets.sockets: io.in() returns the server and
\* server.sockets.sockets is the map of all its connections
roundSockets(partyId) == Sockets

\* preQuestionProcedure's scorecard is sent (quiz.ts:474), then runQuestion up
\* to its await of questionResolve (quiz.ts:498-516): sendQuestion,
\* setupAnswerHandling, timer and allAnswersReceived
runQuestion ==
  /\ awaiting("cardCorrect")
  /\ Head(replies).pre
  /\ stage = "pre"
  /\ LET q == qn
         left == timerStart(quizOf.questionTimeout) IN
     /\ out' = <<scorecardEvent(Head(replies)),
                 [e |-> "new-question", p |-> quizOf.p, q |-> q,
                  answers |-> questions[q], timeLimit |-> left],
                 [e |-> "timer-update", p |-> quizOf.p, q |-> q, secondsLeft |-> left]>>
     /\ ansHandler' = [s \in Sockets |->
                         IF s \in roundSockets(quizOf.p) THEN ansHandler[s] \cup {q}
                                                         ELSE ansHandler[s]]
     /\ secondsLeft' = [secondsLeft EXCEPT ![q] = left]
     /\ timerOn' = [timerOn EXCEPT ![q] = TRUE]
     /\ ansListener' = [ansListener EXCEPT ![q] = TRUE]
     /\ allAnsOnce' = [allAnsOnce EXCEPT ![q] = TRUE]
  /\ stage' = "collect"
  /\ replies' = resume(<<>>)
  /\ UNCHANGED <<storeParty, conn, sent, barriers, storeQuiz, qn, questions,
                 resolvedBy, ticks>>

\* quiz.ts:538  questionNumber === questionsLength
lastQuestionFromZero(questionNumber, questionsLength) ==
  questionNumber = questionsLength - 1
lastQuestion(questionNumber, questionsLength) == questionNumber = questionsLength

\* runQuestion after questionResolve (quiz.ts:518-521) and
\* postQuestionProcedure up to its await of the pause (quiz.ts:538-544)
revealEvents(q) ==
  <<[e |-> "correct-answer", p |-> quizOf.p, q |-> q,
     index |-> findIndex(questions[q], correct_answer(q))]>>
    \o (IF lastQuestion(q, NumQuestions)
          THEN <<[e |-> "quiz-will-end", p |-> quizOf.p]>> ELSE <<>>)
    \o <<[e |-> "begin-post-question", p |-> quizOf.p]>>

\* quiz.ts:131  secondsLeft--
decrement(x) == IF x = NaN THEN NaN ELSE x - 1

\* quiz.ts:134  if (secondsLeft === 0)
timerExpired(left) == left = 0

\* quiz.ts:130-140  one callback of the question's interval
TimerTick(q) ==
  /\ timerOn[q]
  /\ ticks[q] < MaxTicks
  /\ LET left == decrement(secondsLeft[q])
         expired == timerExpired(left)
         settles == expired /\ resolvedBy[q] = "none" IN
     /\ secondsLeft' = [secondsLeft EXCEPT ![q] = left]
     /\ ticks' = [ticks EXCEPT ![q] = @ + 1]
     /\ timerOn' = [timerOn EXCEPT ![q] = ~expired]
     /\ resolvedBy' = IF settles THEN [resolvedBy EXCEPT ![q] = "timer"] ELSE resolvedBy
     /\ stage' = IF settles THEN "pause" ELSE stage
     /\ replies' = IF settles THEN Append(replies, scorecardRequest(q, FALSE)) ELSE replies
     /\ out' = <<[e |-> "timer-update", p |-> quizOf.p, q |-> q, secondsLeft |-> left]>>
                 \o (IF settles THEN revealEvents(q) ELSE <<>>)
  /\ UNCHANGED <<storeParty, conn, sent, barriers, storeQuiz, qn, questions, ansHandler,
                 ansListener, allAnsOnce>>

\* quiz.ts:354  redis.hincrby(`score:${quizId}`, userId, 1)
lowerQuizScore(u) == [scoreOf EXCEPT ![u] = @ - 1]
overwriteQuizScore(u) == [scoreOf EXCEPT ![u] = 1]
updateQuizScore(u) == [scoreOf EXCEPT ![u] = @ + 1]

\* a client sends answer-${quizId}-${q} (answer, partyId, userId) on
\* connection s: answerHandler up to its first await (quiz.ts:341-358), and
\* the listener of listenForAllAnswers up to its first await (quiz.ts:257-260)
AnswerMsg(s, q, answer, p, u) ==
  /\ accepting
  /\ count("answer") < MaxAnswers
  /\ q \in ansHandler[s]
  /\ sent' = received("answer")
  /\ ansHandler' = [ansHandler EXCEPT ![s] = @ \ {q}]
  /\ answers' = IF ansListener[q] THEN [answers EXCEPT ![q] = @ + 1] ELSE answers
  /\ countedBy' = IF ansListener[q] THEN [countedBy EXCEPT ![q][u] = @ + 1] ELSE countedBy
  /\ IF checkAnswer(answer, q)
       THEN /\ scoreOf' = updateQuizScore(u)
            /\ scoreKeys' = IF inSeq(u, scoreKeys) THEN scoreKeys ELSE Append(scoreKeys, u)
            /\ correctUsers' = [correctUsers EXCEPT ![q] = <<u>> \o @]
       ELSE UNCHANGED <<scoreOf, scoreKeys, correctUsers>>
  /\ replies' = replies
       \o (IF ansListener[q]
             THEN <<[k |-> "answerCount", q |-> q, p |-> p,
                     numberOfAnswers |-> answers[q] + 1]>>
             ELSE <<>>)
       \o <<[k |-> "answerName", q |-> q, p |-> p, u |-> u, answer |-> answer,
             name |-> displayNames[p][u], late |-> resolvedBy[q] # "none"]>>
  /\ out' = <<>>
  /\ UNCHANGED <<storeParty, conn, barriers, coord, questions, ansListener, allAnsOnce,
                 timerOn,
                 secondsLeft, resolvedBy, ticks>>

\* quiz.ts:261-263  the counter arrived, the member set is read
listenForAllAnswers ==
  /\ awaiting("answerCount")
  /\ LET h == Head(replies) IN
     replies' = resume(<<[k |-> "answerMembers", q |-> h.q,
                          numberOfAnswers |-> h.numberOfAnswers,
                          numberOfPartyMembers |-> Cardinality(members[h.p])]>>)
  /\ out' = <<>>
  /\ UNCHANGED <<storeParty, conn, sent, quizSide>>

\* quiz.ts:142-147  the timer's listener of all-answers-received
keepInterval(q) == timerOn
clearIntervalOf(q) == [timerOn EXCEPT ![q] = FALSE]

\* quiz.ts:265-267 with the listeners of all-answers-received (quiz.ts:142-147
\* and 291-301) and, when Promise.any settles here, the reveal
allAnswersReceived ==
  /\ awaiting("answerMembers")
  /\ LET h == Head(replies)
         q == h.q
         fires == h.numberOfAnswers = h.numberOfPartyMembers /\ allAnsOnce[q]
         settles == fires /\ resolvedBy[q] = "none" IN
     /\ timerOn' = IF fires THEN clearIntervalOf(q) ELSE timerOn
     /\ ansListener' = IF fires THEN [ansListener EXCEPT ![q] = FALSE] ELSE ansListener
     /\ allAnsOnce' = IF fires THEN [allAnsOnce EXCEPT ![q] = FALSE] ELSE allAnsOnce
     /\ resolvedBy' = IF settles THEN [resolvedBy EXCEPT ![q] = "answers"] ELSE resolvedBy
     /\ stage' = IF settles THEN "pause" ELSE stage
     /\ replies' = resume(IF settles THEN <<scorecardRequest(q, FALSE)>> ELSE <<>>)
     /\ out' = IF settles THEN revealEvents(q) ELSE <<>>
  /\ UNCHANGED <<storeParty, conn, sent, barriers, storeQuiz, qn, questions, ansHandler,
                 secondsLeft, ticks>>

\* quiz.ts:359  the display name arrived, the names hash is read
answerReadUsers ==
  /\ awaiting("answerName")
  /\ LET h == Head(replies) IN
     replies' = resume(<<[k |-> "answerUsers", q |-> h.q, p |-> h.p, u |-> h.u,
                          name |-> h.name, late |-> h.late,
                          numberOfUsers |-> Cardinality({x \in Users :
                                                displayNames[h.p][x] # Nil})]>>)
  /\ out' = <<>>
  /\ UNCHANGED <<storeParty, conn, sent, quizSide>>

\* quiz.ts:360-365
userAnswered ==
  /\ awaiting("answerUsers")
  /\ LET h == Head(replies) IN
     out' = <<[e |-> "user-answered", p |-> h.p, q |-> h.q, id |-> h.u, name |-> h.name,
               numberOfUsers |-> h.numberOfUsers, late |-> h.late]>>
  /\ replies' = resume(<<>>)
  /\ UNCHANGED <<storeParty, conn, sent, quizSide>>

\* quiz.ts:582  for await (const question of questions): the question after q
sameAgain(q) == q
following(q) == q + 1

\* quiz.ts:544-545 the pause of postQuestionProcedure ends; the loop of quiz()
\* goes on (quiz.ts:584-585) or the handler ends (part_001:91)
PauseOver ==
  /\ stage = "pause"
  /\ IF qn < NumQuestions
       THEN /\ qn' = following(qn)
            /\ stage' = "pre"
            /\ replies' = Append(replies, scorecardRequest(0, TRUE))
            /\ out' = <<[e |-> "finish-question", p |-> quizOf.p, q |-> qn]>>
       ELSE /\ qn' = qn
            /\ stage' = "finished"
            /\ replies' = replies
            /\ out' = <<[e |-> "finish-question", p |-> quizOf.p, q |-> qn],
                        [e |-> "quiz-finished", p |-> quizOf.p]>>
  /\ UNCHANGED <<storeParty, conn, sent, barriers, storeQuiz, round, questions>>

\* The party of InitReady; a start-quiz with any time option was received on
\* s1, its barrier has completed and the handler awaits getQuestions
InitQuiz ==
  /\ members = [p \in Parties |-> {"A", "B"}]
  /\ leader = [p \in Parties |-> "A"]
  /\ displayNames = [p \in Parties |-> [u \in Users |-> IF u \in {"A", "B"} THEN "gen" ELSE Nil]]
  /\ partyScore = [p \in Parties |-> {"A", "B"}]
  /\ ttl = [p \in Parties |-> [key \in Keys |-> ExpireSteps]]
  /\ rooms = [s \in Sockets |-> IF s \in {"s1", "s2"} THEN Parties ELSE {}]
  /\ readyFwd = [s \in Sockets |-> [p \in Parties |-> IF s \in {"s1", "s2"} THEN 1 ELSE 0]]
  /\ replies = <<>>
  /\ out = <<[e |-> "all-users-ready", p |-> "P", b |-> 1]>>
  /\ sent = [m \in MsgKinds |-> CASE m \in {"join", "ready"} -> 2 [] m = "start" -> 1 [] OTHER -> 0]
  /\ \E time \in TimeOptions :
       barriers = <<[p |-> "P", s |-> "s1",
                     questionTimeout |-> times(parseInt(time), 1000),
                     allUsers |-> {"A", "B"},
                     usersReady |-> <<[id |-> "A", name |-> "gen"],
                                      [id |-> "B", name |-> "gen"]>>,
                     resolved |-> TRUE]>>
  /\ scoreKeys = <<>>
  /\ scoreOf = [u \in Users |-> 0]
  /\ answers = [q \in Questions |-> 0]
  /\ correctUsers = [q \in Questions |-> <<>>]
  /\ stage = "fetch"
  /\ qn = 0
  /\ questions = [q \in Questions |-> <<>>]
  /\ ansHandler = [s \in Sockets |-> {}]
  /\ ansListener = [q \in Questions |-> FALSE]
  /\ allAnsOnce = [q \in Questions |-> FALSE]
  /\ timerOn = [q \in Questions |-> FALSE]
  /\ secondsLeft = [q \in Questions |-> 0]
  /\ resolvedBy = [q \in Questions |-> "none"]
  /\ ticks = [q \in Questions |-> 0]
  /\ countedBy = [q \in Questions |-> [u \in Users |-> 0]]

NextQuiz ==
  \/ \E ok \in BOOLEAN : FetchQuestions(ok, NotShuffled)
  \/ setupQuizScoresHash
  \/ scorecardReadScores
  \/ scorecardReadCorrect
  \/ sendScorecard
  \/ runQuestion
  \/ \E q \in Questions : TimerTick(q)
  \/ \E s \in Sockets, q \in Questions, a \in Answers, p \in Parties, u \in Users :
       AnswerMsg(s, q, a, p, u)
  \/ listenForAllAnswers
  \/ allAnswersReceived
  \/ answerReadUsers
  \/ userAnswered
  \/ PauseOver

SpecQuiz == InitQuiz /\ [][NextQuiz]_vars

\* a reply of the store arrives and the handler at the head goes on
StoreReplies ==
  \/ setupQuizScoresHash
  \/ scorecardReadScores
  \/ scorecardReadCorrect
  \/ sendScorecard
  \/ runQuestion
  \/ listenForAllAnswers
  \/ allAnswersReceived
  \/ answerReadUsers
  \/ userAnswered

\* the quiz under the scheduling of the event loop: the provider answers or
\* fails, the store replies, setInterval and setTimeout call back; clients
\* need not send anything
SpecQuizFair ==
  /\ SpecQuiz
  /\ WF_vars(\E ok \in BOOLEAN : FetchQuestions(ok, NotShuffled))
  /\ WF_vars(StoreReplies)
  /\ WF_vars(\E q \in Questions : TimerTick(q))
  /\ WF_vars(PauseOver)

----------------------------------------------------------------------------
(* A quiz of a party that is joined and left while the quiz runs *)

\* A alone joined P on s1 and started a quiz; s2 is connected and has not
\* joined; the barrier has completed and the handler awaits getQuestions
InitLate ==
  /\ members = [p \in Parties |-> {"A"}]
  /\ leader = [p \in Parties |-> "A"]
  /\ displayNames = [p \in Parties |-> [u \in Users |-> IF u \in {"A"} THEN "gen" ELSE Nil]]
  /\ partyScore = [p \in Parties |-> {"A"}]
  /\ ttl = [p \in Parties |-> [key \in Keys |-> ExpireSteps]]
  /\ rooms = [s \in Sockets |-> IF s \in {"s1"} THEN Parties ELSE {}]
  /\ readyFwd = [s \in Sockets |-> [p \in Parties |-> IF s \in {"s1"} THEN 1 ELSE 0]]
  /\ replies = <<>>
  /\ out = <<[e |-> "all-users-ready", p |-> "P", b |-> 1]>>
  /\ sent = [m \in MsgKinds |-> CASE m \in {"join", "ready", "start"} -> 1 [] OTHER -> 0]
  /\ \E time \in {"1"} :
       barriers = <<[p |-> "P", s |-> "s1",
                     questionTimeout |-> times(parseInt(time), 1000),
                     allUsers |-> {"A"},
                     usersReady |-> <<[id |-> "A", name |-> "gen"]>>,
                     resolved |-> TRUE]>>
  /\ scoreKeys = <<>>
  /\ scoreOf = [u \in Users |-> 0]
  /\ answers = [q \in Questions |-> 0]
  /\ correctUsers = [q \in Questions |-> <<>>]
  /\ stage = "fetch"
  /\ qn = 0
  /\ questions = [q \in Questions |-> <<>>]
  /\ ansHandler = [s \in Sockets |-> {}]
  /\ ansListener = [q \in Questions |-> FALSE]
  /\ allAnsOnce = [q \in Questions |-> FALSE]
  /\ timerOn = [q \in Questions |-> FALSE]
  /\ secondsLeft = [q \in Questions |-> 0]
  /\ resolvedBy = [q \in Questions |-> "none"]
  /\ ticks = [q \in Questions |-> 0]
  /\ countedBy = [q \in Questions |-> [u \in Users |-> 0]]

\* the user id each connection joins with and sends with its answers
joinedAs == [s \in Sockets |-> IF s = "s1" THEN "A" ELSE "B"]

\* an answer sent by a member of the party on the connection it joined with
MemberAnswerMsg(s, q, answer, p, u) ==
  /\ u = joinedAs[s]
  /\ u \in members[p]
  /\ p \in rooms[s]
  /\ AnswerMsg(s, q, answer, p, u)

\* a join-party message received while the quiz runs
LateJoinMsg(s, p, u) ==
  /\ count("join") < MaxLateJoins
  /\ JoinPartyMsg(s, p, u)

\* the quiz as in NextQuiz, with correct answers sent by members only, and
\* each connection joining the party (A once more, B for the first time)
NextLate ==
  \/ FetchQuestions(TRUE, NotShuffled)
  \/ setupQuizScoresHash
  \/ scorecardReadScores
  \/ scorecardReadCorrect
  \/ sendScorecard
  \/ runQuestion
  \/ \E q \in Questions : TimerTick(q)
  \/ \E s \in Sockets, q \in Questions, p \in Parties, u \in Users :
       MemberAnswerMsg(s, q, correct_answer(q), p, u)
  \/ listenForAllAnswers
  \/ allAnswersReceived
  \/ answerReadUsers
  \/ userAnswered
  \/ PauseOver
  \/ \E s \in Sockets, p \in Parties : LateJoinMsg(s, p, joinedAs[s])
  \/ joinParty
  \/ assignDisplayName
  \/ nameWritten
  \/ sendUserDisplayName
  \/ listReadLeader
  \/ sendListOfPartyMembers

SpecLate == InitLate /\ [][NextLate]_vars

----------------------------------------------------------------------------
(* A quiz whose questions are shuffled in every possible way *)

\* the quiz of A alone (InitLate), the fetch failing or giving questions
\* with any outcome of the shuffles; A sends the
\* correct answer to the question being asked, or lets the timer expire
\* a member sends the correct answer to the question on screen
CurrentAnswerMsg(s, p, u) ==
  /\ stage = "collect"
  /\ MemberAnswerMsg(s, qn, correct_answer(qn), p, u)

NextShuffle ==
  \/ \E ok \in BOOLEAN, shuffled \in Shuffles : FetchQuestions(ok, shuffled)
  \/ setupQuizScoresHash
  \/ scorecardReadScores
  \/ scorecardReadCorrect
  \/ sendScorecard
  \/ runQuestion
  \/ \E q \in Questions : TimerTick(q)
  \/ \E s \in Sockets, p \in Parties, u \in Users : CurrentAnswerMsg(s, p, u)
  \/ listenForAllAnswers
  \/ allAnswersReceived
  \/ answerReadUsers
  \/ userAnswered
  \/ PauseOver

SpecShuffle == InitLate /\ [][NextShuffle]_vars

----------------------------------------------------------------------------
(* Two parties on one server *)

\* the parties of the server when a second party exists
TwoParties == Parties \cup {"Q"}

\* A alone is party P (connection s1) and B alone is party Q (connection
\* s2); A started a quiz for P, its barrier has completed and the handler
\* awaits getQuestions; Q runs nothing
InitTwo ==
  /\ members = [p \in TwoParties |-> IF p = "P" THEN {"A"} ELSE {"B"}]
  /\ leader = [p \in TwoParties |-> IF p = "P" THEN "A" ELSE "B"]
  /\ displayNames = [p \in TwoParties |->
                       [u \in Users |-> IF u \in members[p] THEN "gen" ELSE Nil]]
  /\ partyScore = members
  /\ ttl = [p \in TwoParties |-> [key \in Keys |-> ExpireSteps]]
  /\ rooms = [s \in Sockets |-> IF s = "s1" THEN {"P"} ELSE {"Q"}]
  /\ readyFwd = [s \in Sockets |-> [p \in TwoParties |-> IF p \in rooms[s] THEN 1 ELSE 0]]
  /\ replies = <<>>
  /\ out = <<[e |-> "all-users-ready", p |-> "P", b |-> 1]>>
  /\ sent = [m \in MsgKinds |-> CASE m = "join" -> 2
                                   [] m \in {"ready", "start"} -> 1
                                   [] OTHER -> 0]
  /\ barriers = <<[p |-> "P", s |-> "s1",
                   questionTimeout |-> times(parseInt("1"), 1000),
                   allUsers |-> {"A"},
                   usersReady |-> <<[id |-> "A", name |-> "gen"]>>,
                   resolved |-> TRUE]>>
  /\ scoreKeys = <<>>
  /\ scoreOf = [u \in Users |-> 0]
  /\ answers = [q \in Questions |-> 0]
  /\ correctUsers = [q \in Questions |-> <<>>]
  /\ stage = "fetch"
  /\ qn = 0
  /\ questions = [q \in Questions |-> <<>>]
  /\ ansHandler = [s \in Sockets |-> {}]
  /\ ansListener = [q \in Questions |-> FALSE]
  /\ allAnsOnce = [q \in Questions |-> FALSE]
  /\ timerOn = [q \in Questions |-> FALSE]
  /\ secondsLeft = [q \in Questions |-> 0]
  /\ resolvedBy = [q \in Questions |-> "none"]
  /\ ticks = [q \in Questions |-> 0]
  /\ countedBy = [q \in Questions |-> [u \in Users |-> 0]]

\* a member of party p sends, on its connection, the correct answer to the
\* question that P's quiz is asking, with p as the partyId of the message
PartyAnswerMsg(s, p, u) ==
  /\ stage = "collect"
  /\ MemberAnswerMsg(s, qn, correct_answer(qn), p, u)

\* P's quiz with answers from the members of both parties, and B kicked
\* from Q
NextTwo ==
  \/ FetchQuestions(TRUE, NotShuffled)
  \/ setupQuizScoresHash
  \/ scorecardReadScores
  \/ scorecardReadCorrect
  \/ sendScorecard
  \/ runQuestion
  \/ \E q \in Questions : TimerTick(q)
  \/ \E s \in Sockets, p \in TwoParties, u \in Users : PartyAnswerMsg(s, p, u)
  \/ listenForAllAnswers
  \/ allAnswersReceived
  \/ answerReadUsers
  \/ userAnswered
  \/ PauseOver
  \/ \E u \in Users : KickPartyMemberMsg(u, "Q")
  \/ removePartyMember
  \/ removedThenList
  \/ listReadLeader
  \/ sendListOfPartyMembers

SpecTwo == InitTwo /\ [][NextTwo]_vars

----------------------------------------------------------------------------
(* A quiz during which a member of the party is kicked *)

\* a kick-party-member message for a member of the party, received once the
\* scores hash of the quiz has been written
KickDuringQuizMsg(u, p) ==
  /\ scoreKeys # <<>>
  /\ u \in members[p]
  /\ KickPartyMemberMsg(u, p)

\* the quiz of A and B (InitQuiz) with questions fetched; the members send
\* the correct answer to the question being asked, and one of them is kicked
NextKick ==
  \/ FetchQuestions(TRUE, NotShuffled)
  \/ setupQuizScoresHash
  \/ scorecardReadScores
  \/ scorecardReadCorrect
  \/ sendScorecard
  \/ runQuestion
  \/ \E q \in Questions : TimerTick(q)
  \/ \E s \in Sockets, p \in Parties, u \in Users : CurrentAnswerMsg(s, p, u)
  \/ listenForAllAnswers
  \/ allAnswersReceived
  \/ answerReadUsers
  \/ userAnswered
  \/ PauseOver
  \/ \E u \in Users, p \in Parties : KickDuringQuizMsg(u, p)
  \/ removePartyMember
  \/ removedThenList
  \/ listReadLeader
  \/ sendListOfPartyMembers

SpecKick == InitQuiz /\ [][NextKick]_vars

\* a reply of the store resumes removePartyMember or the roster it sends
KickReplies ==
  \/ removePartyMember
  \/ removedThenList
  \/ listReadLeader
  \/ sendListOfPartyMembers

\* the same quiz with every reply of the store arriving; nothing is assumed
\* of the interval timer, the pause or the clients
SpecKickFair ==
  /\ SpecKick
  /\ WF_vars(StoreReplies)
  /\ WF_vars(KickReplies)

----------------------------------------------------------------------------
(* A quiz during which a kicked user goes on answering *)

\* a user who is not a member of party p (any more) sends, on the connection
\* it joined with, the correct answer to the question being asked
KickedAnswerMsg(s, p, u) ==
  /\ stage = "collect"
  /\ u = joinedAs[s]
  /\ u \notin members[p]
  /\ AnswerMsg(s, qn, correct_answer(qn), p, u)

NextKicked ==
  \/ NextKick
  \/ \E s \in Sockets, p \in Parties, u \in Users : KickedAnswerMsg(s, p, u)

SpecKicked == InitQuiz /\ [][NextKicked]_vars

----------------------------------------------------------------------------
(* From start-quiz to the first question *)

\* the first start-quiz message the server receives
FirstStartQuizMsg(s, p, time) ==
  /\ count("start") = 0
  /\ StartQuizMsg(s, p, time)

\* part_001:60  await allUsersReady(...): the handler goes on when the
\* promise of its barrier has resolved
awaitAnyAcknowledgement(resolved) == TRUE
awaitAllUsersReady(resolved) == resolved

\* the listener with the continuation of the start-quiz handler: when its
\* barrier completes the handler calls getQuestions and awaits it
\* (part_001:62-70)
readyListenerThenGetQuestions ==
  /\ listenerReturns
  /\ stage' = IF /\ stage = "idle"
                 /\ Head(replies).b = 1
                 /\ awaitAllUsersReady(barriers'[1].resolved)
               THEN "fetch" ELSE stage
  /\ UNCHANGED <<storeQuiz, round, qn, questions>>

\* the party of InitReady from its first start-quiz to the first question:
\* the barrier, the fetch (failing or not), the seeding of the scores and
\* the scorecard and question that open round 1
NextStart ==
  \/ \E s \in Sockets, p \in Parties : FirstStartQuizMsg(s, p, "1")
  \/ allUsersReady
  \/ \E s \in Sockets, u \in Users : UserReadyMsg(s, u)
  \/ readyListenerThenGetQuestions
  \/ \E ok \in BOOLEAN : FetchQuestions(ok, NotShuffled)
  \/ setupQuizScoresHash
  \/ scorecardReadScores
  \/ scorecardReadCorrect
  \/ runQuestion

SpecStart == InitReady /\ [][NextStart]_vars

----------------------------------------------------------------------------
(* Claims about a question round (SpecQuiz) *)

RECURSIVE occurrences(_, _)
occurrences(x, seq) ==
  IF seq = <<>> THEN 0
  ELSE (IF Head(seq) = x THEN 1 ELSE 0) + occurrences(x, Tail(seq))

eventsOf(events, kind, q) ==
  {i \in 1..Len(events) : events[i].e = kind /\ events[i].q = q}

\* C1: for every question Q and user U, the submissions carrying U's id for
\* Q raise Q's answer counter by at most 1 and U's score by at most 1 (one
\* entry of U in Q's correct-answerer record), whatever the connections they
\* arrive on.
C1_UserCountedAtMostOnce ==
  \A q \in Questions, u \in Users :
    /\ countedBy[q][u] <= 1
    /\ occurrences(u, correctUsers[q]) <= 1

\* the number of one-second ticks start-quiz's time option allows a round; a
\* limit of 0 or no number at all is given one tick
timeLimitTicks ==
  LET seconds == dividedBy(quizOf.questionTimeout, 1000) IN
  IF seconds = NaN \/ seconds < 1 THEN 1 ELSE seconds

\* C2: for any time limit start-quiz passes (0, missing and non-numeric
\* included), a round whose timer has ticked timeLimit times has resolved
\* and gone on to the correct-answer broadcast, answers or no answers.
C2_ResolvedWithinTimeLimit ==
  \A q \in Questions :
    ticks[q] >= timeLimitTicks => resolvedBy[q] # "none" /\ (qn > q \/ stage # "collect")

\* C3: once a round was resolved by its timer, no step changes the answer
\* counter, the correct-answerer record or (with it) a score on behalf of
\* that question, and no user-answered broadcast is made for an answer
\* that was submitted after the resolution.
C3_NoCollectionAfterTimerResolved ==
  [][\A q \in Questions :
       resolvedBy[q] = "timer" =>
         /\ answers'[q] = answers[q]
         /\ countedBy'[q] = countedBy[q]
         /\ correctUsers'[q] = correctUsers[q]
         /\ \A i \in eventsOf(out', "user-answered", q) : ~out'[i].late]_vars

\* C4: once a round was resolved by the answer counter reaching the member
\* count, its timer is cancelled: the interval is cleared, no later step
\* broadcasts a timer-update for that question, and the round stays
\* resolved by the answers (the timer never fires afterwards).
C4_TimerCancelledWhenAllAnswered ==
  [][\A q \in Questions :
       resolvedBy'[q] = "answers" =>
         /\ ~timerOn'[q]
         /\ eventsOf(out', "timer-update", q) = {}
         /\ (resolvedBy[q] = "answers" => secondsLeft'[q] = secondsLeft[q]
                                          /\ ticks'[q] = ticks[q])]_vars

\* question 1 was resolved by the answers after one tick of a two-second
\* timer, and question 2 is being asked
C4_Witness ==
  /\ resolvedBy[1] = "answers"
  /\ ticks[1] = 1
  /\ secondsLeft[1] = 1
  /\ qn = 2
  /\ stage = "collect"
  /\ timerOn[2]

\* C5: the broadcasts of a round come in the order new-question,
\* correct-answer, updated-scorecard of the question, finish-question: each
\* is made in the phase of its own question that the previous one opened,
\* so the scorecard of question q is made between q's correct-answer and
\* q's finish-question.
C5_BroadcastOrder ==
  [][\A q \in Questions :
       /\ eventsOf(out', "new-question", q) # {} => qn = q /\ stage = "pre"
       /\ eventsOf(out', "correct-answer", q) # {} => qn = q /\ stage = "collect"
       /\ eventsOf(out', "updated-scorecard", q) # {} => qn = q /\ stage = "pause"
       /\ eventsOf(out', "finish-question", q) # {} => qn = q /\ stage = "pause"]_vars

\* the handler that the last step suspended
suspendedLast == replies'[Len(replies')]

\* C15: the step that receives an answer differing from the question's
\* correct answer changes no quiz score, no score entry and no
\* correct-answerer record; it changes nothing of the party either, and of
\* the quiz only the answer counter of its question, by one.
C15_IncorrectAnswerScoresNothing ==
  [][(/\ sent'.answer = sent.answer + 1
      /\ suspendedLast.answer # correct_answer(suspendedLast.q)) =>
        /\ scoreOf' = scoreOf
        /\ scoreKeys' = scoreKeys
        /\ correctUsers' = correctUsers
        /\ storeParty' = storeParty
        /\ answers'[suspendedLast.q] = answers[suspendedLast.q] + 1
        /\ \A q \in Questions \ {suspendedLast.q} : answers'[q] = answers[q]]_vars

\* A's incorrect answer to question 1 was counted and announced, and nobody
\* has a point
C15_Witness ==
  /\ answers[1] = 1
  /\ countedBy[1]["A"] = 1
  /\ correctUsers[1] = <<>>
  /\ \A u \in Users : scoreOf[u] = 0
  /\ \E i \in 1..Len(out) : out[i].e = "user-answered" /\ out[i].id = "A"

\* C16: no update is lost, whatever the interleaving of the answer handlers:
\* each step that receives a correct answer raises the score of its user by
\* exactly 1 and leaves the other scores, and while the question is
\* collecting it raises the question's answer counter by exactly 1; no
\* other step changes an answer counter, and no other step but the seeding
\* at quiz start changes a score.  So a set S of users answering correctly
\* once each end 1 higher each, with the counter |S| higher.
C16_NoLostUpdate ==
  [][IF sent'.answer = sent.answer + 1
       THEN /\ suspendedLast.answer = correct_answer(suspendedLast.q) =>
                 scoreOf' = [scoreOf EXCEPT ![suspendedLast.u] = @ + 1]
            /\ ansListener[suspendedLast.q] =>
                 answers' = [answers EXCEPT ![suspendedLast.q] = @ + 1]
       ELSE /\ answers' = answers
            /\ scoreOf' # scoreOf => awaiting("seedMembers")]_vars

\* A and B both answered question 1 correctly, once each, while it was
\* collecting, B's answer arriving while A's handler was suspended: both
\* have 1 point and the counter is 2
C16_Witness ==
  /\ occurrences("A", correctUsers[1]) = 1
  /\ occurrences("B", correctUsers[1]) = 1
  /\ scoreOf = [u \in Users |-> 1]
  /\ answers[1] = 2
  /\ resolvedBy[1] = "none"
  /\ \E i, j \in 1..Len(replies) :
       /\ replies[i].k = "answerUsers" /\ replies[i].u = "A"
       /\ replies[j].k = "answerName" /\ replies[j].u = "B"

\* the position of a user id in the fields of the score hash as they were read
position(id, keys) == CHOOSE i \in 1..Len(keys) : keys[i] = id

\* C17: every scorecard that is broadcast lists the fields of the score hash
\* that was read, sorted by score descending, entries of equal score in the
\* order of their fields in the hash.
C17_ScorecardSortedAndStable ==
  [][\A e \in 1..Len(out') :
       out'[e].e = "updated-scorecard" =>
         LET card == out'[e].card
             keys == Head(replies).keys IN
         /\ Len(card) = Len(keys)
         /\ {card[i].id : i \in 1..Len(card)} = {keys[i] : i \in 1..Len(keys)}
         /\ \A i, j \in 1..Len(card) :
              i < j =>
                /\ card[i].score >= card[j].score
                /\ card[i].score = card[j].score =>
                     position(card[i].id, keys) < position(card[j].id, keys)]_vars

\* a scorecard was broadcast in which B, the second field of the hash, is
\* listed before A because B has more points
C17_Witness ==
  /\ scoreKeys = <<"A", "B">>
  /\ \E e \in 1..Len(out) :
       /\ out[e].e = "updated-scorecard"
       /\ Len(out[e].card) = 2
       /\ out[e].card[1].id = "B"
       /\ out[e].card[1].score > out[e].card[2].score

\* C18: a round is resolved by the answers (before its timer expires) only
\* when every member of the party then has a counted answer for the
\* question.
C18_EarlyOnlyWhenAllMembersAnswered ==
  [][\A q \in Questions :
       (resolvedBy[q] = "none" /\ resolvedBy'[q] = "answers") =>
         \A u \in members'[quizOf.p] : countedBy'[q][u] >= 1]_vars

----------------------------------------------------------------------------
(* Claims about the ready barrier (SpecReady) *)

readyIds(b) == {barriers[b].usersReady[i].id : i \in 1..Len(barriers[b].usersReady)}
Barriers == 1..Len(barriers)
emitted(events, kinds, b) ==
  \E i \in 1..Len(events) : events[i].e \in kinds /\ events[i].b = b

\* C6: acknowledgements are deduplicated by user id: the ready-count of a
\* barrier is the number of distinct user ids acknowledged, and a barrier that
\* completed was acknowledged by every member it waited for.
C6_ReadyCountIsDistinctUsers ==
  \A b \in Barriers :
    /\ Len(barriers[b].usersReady) = Cardinality(readyIds(b))
    /\ barriers[b].resolved => barriers[b].allUsers \subseteq readyIds(b)

\* C7: an acknowledgement completes the barrier if and only if the ready-count
\* then equals the size of the member set stored at that moment.
C7_CompletesIffReadyEqualsLiveMembers ==
  [][\A b \in Barriers :
       (awaiting("readyName") /\ Head(replies).b = b /\ ~barriers[b].resolved) =>
         (barriers'[b].resolved <=>
            Len(barriers'[b].usersReady) = Cardinality(members[barriers[b].p]))]_vars

\* C8: all-users-ready is broadcast once per barrier, and after it no further
\* all-users-ready, percent-users-ready or these-users-ready of that barrier,
\* whatever acknowledgements arrive or are in flight.  (Stated for barriers
\* that no user acknowledged twice, so that the duplicates of C6 do not count.)
C8_NothingAfterAllUsersReady ==
  [][\A b \in Barriers :
       (barriers[b].resolved
          /\ Len(barriers'[b].usersReady) = Cardinality({barriers'[b].usersReady[i].id :
                                    i \in 1..Len(barriers'[b].usersReady)})) =>
         ~emitted(out', {"all-users-ready", "percent-users-ready",
                         "these-users-ready"}, b)]_vars

----------------------------------------------------------------------------
(* Claims about does-party-exist (SpecExists) *)

\* C11: after any sequence of joins and kicks (no handler suspended when
\* the question arrives), the answer of does-party-exist is true if and
\* only if the party's member set is non-empty when it is given.
C11_ExistsIffMembers ==
  [][\A i \in 1..Len(out') :
       out'[i].e = "party-exists" /\ out'[i].quiet =>
         (out'[i].exists <=> members'[out'[i].p] # {})]_vars

\* the party was joined and emptied again by a kick, and does-party-exist,
\* asked afterwards, answers false
C11_Witness ==
  /\ sent.join >= 1
  /\ sent.kick >= 1
  /\ members["P"] = {}
  /\ leader["P"] # Nil
  /\ \E i \in 1..Len(out) :
       out[i].e = "party-exists" /\ out[i].quiet /\ ~out[i].exists

----------------------------------------------------------------------------
(* Claims about the party leader (SpecParty) *)

\* A joinParty resuming with a member set that is no longer the stored one
joinReadIsStale ==
  awaiting("joinMembers")
    /\ Head(replies).partyMembers # members[Head(replies).p]

\* C9: the first user to join an empty party becomes its leader, and while
\* the party has members no later step (a join, under any interleaving of
\* the joins' reads and adds) changes the stored leader.
C9_FirstJoinerStaysLeader ==
  [][\A p \in Parties :
       /\ (members[p] = {} /\ members'[p] # {}) => leader'[p] \in members'[p]
       /\ members[p] # {} => leader'[p] = leader[p]]_vars

\* C10 as stated: once a leader is stored, no join and no removal changes it,
\* also not a join that finds the member set empty again.  (Only joins whose
\* read of the member set is current are considered, so that the race of C9
\* does not count here.)
C10_LeaderNeverReassigned ==
  [][\A p \in Parties :
       (leader[p] # Nil /\ ~joinReadIsStale) => leader'[p] = leader[p]]_vars

\* C10 amended: a removal never changes the stored leader, and the stored
\* leader changes only in a joinParty whose read of the member set was empty
\* (party.ts:54-59, "a new party"), which stores the joining user.
C10_LeaderChangesOnlyOnJoinOfEmptyParty ==
  [][\A p \in Parties :
       leader'[p] # leader[p] =>
         /\ awaiting("joinMembers")
         /\ Head(replies).p = p
         /\ Head(replies).partyMembers = {}
         /\ leader'[p] = Head(replies).u]_vars

\* C10 witness: the leader A was removed, B is still a member, a join followed
\* the removal, and the stored leader is still A.
C10_Witness ==
  /\ leader["P"] = "A"
  /\ members["P"] = {"B"}
  /\ sent["kick"] = 1
  /\ sent["join"] = 3
  /\ replies = <<>>

----------------------------------------------------------------------------
(* Claims about joining again (SpecParty) *)

\* C12: when a user who is already a member joins again on a connection
\* that already forwards user-ready for the party (and the join's read of
\* the member set is current), the join leaves the member set, the leader,
\* the display names and the score entries as they were and registers no
\* further user-ready forwarder.
C12_RejoinChangesNothing ==
  [][/\ (/\ awaiting("joinMembers")
         /\ ~joinReadIsStale
         /\ Head(replies).u \in members[Head(replies).p]
         /\ readyFwd[Head(replies).s][Head(replies).p] >= 1)
        => storeParty' = storeParty /\ readyFwd' = readyFwd
     /\ (/\ awaiting("assignName")
         /\ Head(replies).name # Nil
         /\ Head(replies).name = displayNames[Head(replies).p][Head(replies).u])
        => storeParty' = storeParty /\ readyFwd' = readyFwd]_vars

----------------------------------------------------------------------------
(* Claims about the score entries of a quiz (SpecLate) *)

\* C13: a user gets a score entry of the quiz only by the seeding at quiz
\* start, as one of the members read then and with the value 0; no later
\* step (an answer of a user who joined after the start) creates an entry.
C13_ScoreEntriesOnlyBySeeding ==
  [][\A u \in Users :
       (~inSeq(u, scoreKeys) /\ inSeq(u, scoreKeys')) =>
         /\ awaiting("seedMembers")
         /\ inSeq(u, Head(replies).users)
         /\ scoreOf'[u] = 0]_vars

----------------------------------------------------------------------------
(* Claims about the shuffled answers (SpecShuffle) *)

\* C19: the answers array broadcast in new-question is the question's
\* randomised_answers, a shuffle of its incorrect answers and its correct
\* answer made when the questions were fetched and not changed afterwards,
\* and the index broadcast in correct-answer is the position (from 0) of the
\* correct answer in that array.
C19_RevealedIndexIsCorrectAnswer ==
  [][/\ stage # "fetch" => questions' = questions
     /\ \A q \in Questions :
          /\ \A e \in eventsOf(out', "new-question", q) :
               /\ out'[e].answers = questions'[q]
               /\ out'[e].answers \in shuffle(unshuffled(q))
          /\ \A e \in eventsOf(out', "correct-answer", q) :
               /\ out'[e].index \in 0..(Len(questions[q]) - 1)
               /\ questions[q][out'[e].index + 1] = correct_answer(q)]_vars

\* the correct answer of question 1 was shuffled to the front and index 0
\* was broadcast for it
C19_Witness ==
  /\ stage = "pause"
  /\ qn = 1
  /\ questions[1] = <<"right", "wrong", "other">>
  /\ \E e \in 1..Len(out) : out[e].e = "correct-answer" /\ out[e].index = 0

----------------------------------------------------------------------------
(* Claims about removing a member (SpecParty) *)

\* the step resumes the handler that waits at the head for a reply of this kind
resumes(kind) == awaiting(kind) /\ sent' = sent

\* C20: kicking a member A of party P broadcasts to P a user-leaving-party
\* event with A's id and the display name A has when the removal is issued,
\* and the party-members roster that follows the removal does not list A
\* (while A has not become a member again).
C20_KickBroadcastsNameThenRosterWithoutUser ==
  [][/\ (resumes("kickName") /\ Head(replies).u \in members[Head(replies).p]) =>
          out' = <<[e |-> "user-leaving-party", p |-> Head(replies).p,
                    id |-> Head(replies).u,
                    name |-> displayNames[Head(replies).p][Head(replies).u]]>>
     /\ (/\ resumes("listLeader")
         /\ Head(replies).removed # Nil
         /\ Head(replies).removed \notin members[Head(replies).p]) =>
          /\ Len(out') = 1
          /\ out'[1].e = "party-members"
          /\ out'[1].p = Head(replies).p
          /\ \A m \in out'[1].members : m.id # Head(replies).removed]_vars

----------------------------------------------------------------------------
(* Claims about a failing question provider (SpecShuffle) *)

kinds(events) == {events[i].e : i \in 1..Len(events)}

\* C21: when getQuestions throws (provider failure or zero questions), the
\* handler sends exactly one error event, to the connection that sent
\* start-quiz, broadcasts neither new-quiz-id nor new-question, and leaves the
\* member set, the leader and the display names of the party as they were;
\* nothing but that error and quiz-finished is emitted and no score is seeded.
C21_FetchFailureReportedOnceToRequester ==
  [][(stage = "fetch" /\ stage' = "finished") =>
          /\ \E i \in 1..Len(out') : out'[i] = [e |-> "error", to |-> quizOf.s]
          /\ Cardinality({i \in 1..Len(out') : out'[i].e = "error"}) = 1
          /\ kinds(out') = {"error", "quiz-finished"}
          /\ <<members, leader, displayNames>>' = <<members, leader, displayNames>>
          /\ scoreKeys' = <<>>]_vars

\* the fetch failed and the requester was told
C21_Witness ==
  /\ stage = "finished"
  /\ qn = 0
  /\ "error" \in kinds(out)
  /\ members["P"] = {"A"}

----------------------------------------------------------------------------
(* Claims about the end of a quiz (SpecQuizFair) *)

\* C22: a start-quiz whose ready barrier has completed leads to a
\* quiz-finished broadcast to the party, whether the questions are fetched
\* and run to the end or the fetch fails, and quiz-finished is broadcast once.
C22_QuizFinishedExactlyOnce ==
  /\ <>("quiz-finished" \in kinds(out))
  /\ [][("quiz-finished" \in kinds(out')) => stage # "finished"]_vars

----------------------------------------------------------------------------
(* Claims about concurrent sessions (SpecReady) *)

\* the barriers of party p that wait for acknowledgements
pending(p) == {b \in Barriers : barriers[b].p = p /\ ~barriers[b].resolved}

\* C23: a party has at most one session in progress: while a barrier of the
\* party waits for acknowledgements, a further start-quiz for the party does
\* not start a second barrier.
C23_AtMostOneSessionPerParty ==
  \A p \in Parties : Cardinality(pending(p)) <= 1

----------------------------------------------------------------------------
(* Claims about two parties (SpecTwo) *)

\* what the store and the process hold of a party: its registry entries, its
\* barriers and, for the party whose quiz runs, the quiz's counters, scores
\* and round resolutions
partyState(p) ==
  <<members[p], leader[p], displayNames[p], partyScore[p],
    [b \in Barriers |-> IF barriers[b].p = p THEN barriers[b] ELSE Nil],
    IF quizOf.p = p THEN <<answers, scoreKeys, scoreOf, correctUsers, resolvedBy>>
                    ELSE <<>>>>

\* a message with partyId p was received in this step
addressedTo(p) ==
  /\ sent' # sent
  /\ Len(replies') > Len(replies)
  /\ replies'[Len(replies')].p = p

\* C24: a message addressed to one party (its partyId) changes nothing of
\* another party: not its member set, leader, display names or barriers,
\* nor the answer counters, scores and round resolutions of its quiz.
C24_PartiesIndependent ==
  [][\A p \in TwoParties : addressedTo(p) =>
        \A q \in TwoParties \ {p} : partyState(q)' = partyState(q)]_vars

----------------------------------------------------------------------------
(* Claims about the sequence of rounds (SpecShuffle) *)

\* the events of the given kinds about question q among events
about(events, which, q) ==
  {i \in 1..Len(events) : events[i].e \in which /\ events[i].q = q}

\* C25: the questions are asked in the order 1..n, one round at a time:
\* new-question q is broadcast once the quiz has come to q, right after a
\* pre-question scorecard; the quiz comes to q + 1 only with finish-question
\* of q; timer updates, the reveal and the finish signal of q are broadcast
\* while the quiz is at q, and the scorecard of q after q's reveal and before
\* the pre-question scorecard and new-question of q + 1.
C25_RoundsInOrdinalOrder ==
  [][/\ qn' # qn =>
          \/ stage = "fetch" /\ qn' = 1
          \/ qn' = qn + 1 /\ about(out', {"finish-question"}, qn) # {}
     /\ \A i \in 1..Len(out') :
          /\ out'[i].e = "new-question" =>
               /\ out'[i].q = qn /\ stage = "pre" /\ stage' = "collect"
               /\ i = 2 /\ out'[1].e = "updated-scorecard" /\ out'[1].q = 0
          /\ out'[i].e \in {"timer-update", "correct-answer"} =>
               out'[i].q = qn /\ stage \in {"pre", "collect"}
          /\ out'[i].e = "finish-question" =>
               /\ out'[i].q = qn /\ stage = "pause"
               /\ IF qn < NumQuestions THEN qn' = qn + 1 /\ stage' = "pre"
                                        ELSE qn' = qn /\ stage' = "finished"
          /\ (out'[i].e = "updated-scorecard" /\ out'[i].q # 0) =>
               /\ resolvedBy[out'[i].q] # "none"
               /\ \/ out'[i].q = qn /\ stage \in {"pause", "finished"}
                  \/ out'[i].q + 1 = qn /\ stage = "pre"]_vars

\* the scorecard of question 1 is broadcast after finish-question of 1, while
\* the pre-question scorecard of question 2 is still being read
C25_Witness ==
  /\ qn = 2
  /\ stage = "pre"
  /\ about(out, {"updated-scorecard"}, 1) # {}

\* question q is resolved in this step
resolves(q) == resolvedBy[q] = "none" /\ resolvedBy'[q] # "none"

\* C26: quiz-will-end is broadcast exactly in the step that resolves the
\* final question (the one whose number is the number of questions), with
\* that question's reveal, hence once per quiz, and before the scorecard of
\* that question is broadcast.
C26_QuizWillEndWithFinalQuestion ==
  [][/\ \A q \in Questions :
          resolves(q) => (("quiz-will-end" \in kinds(out')) <=> q = NumQuestions)
     /\ "quiz-will-end" \in kinds(out') =>
          /\ resolves(NumQuestions)
          /\ qn = NumQuestions
          /\ about(out', {"correct-answer"}, NumQuestions) # {}
          /\ Cardinality({i \in 1..Len(out') : out'[i].e = "quiz-will-end"}) = 1
     /\ \A i \in 1..Len(out') :
          (out'[i].e = "updated-scorecard" /\ out'[i].q = NumQuestions) =>
             /\ ~resolves(NumQuestions)
             /\ resolvedBy[NumQuestions] # "none"
             /\ "quiz-will-end" \notin kinds(out')]_vars

\* the final question was resolved and quiz-will-end broadcast
C26_Witness ==
  /\ "quiz-will-end" \in kinds(out)
  /\ qn = NumQuestions
  /\ stage = "pause"
  /\ resolvedBy[1] # "none"

----------------------------------------------------------------------------
(* Claims about the expiry of a party (SpecExpiry) *)

\* C27: the member set, the leader and the display names of a party expire
\* together: when one of these keys expires, none of the others stays alive.
C27_PartyKeysExpireTogether ==
  [][\A p \in Parties, key \in Keys \ {"score"} :
       (ttl[p][key] > 0 /\ ttl'[p][key] = 0 /\ replies = <<>> /\ replies' = <<>>) =>
          \A other \in Keys \ {"score"} : ttl'[p][other] = 0]_vars

----------------------------------------------------------------------------
(* Claims about parties that do not exist (SpecParty) *)

\* party p does not exist and lists nobody
missing(p) ==
  /\ ~partyExists(members[p])
  /\ roster(displayNames[p], leader[p]) = {}

\* C28: changeDisplayName and removePartyMember on a party that does not
\* exist (with no other handler in progress) leave it so: afterwards the
\* party still does not exist and the roster read for it is still empty.
C28_MissingPartyStaysMissing ==
  [][\A p \in Parties :
       /\ missing(p)
       /\ \/ /\ sent'["rename"] # sent["rename"]
             /\ replies = <<>>
             /\ suspendedLast.p = p
          \/ /\ resumes("kickName")
             /\ Len(replies) = 1
             /\ Head(replies).p = p
       => missing(p)']_vars

\* C29: every party-members roster broadcast lists exactly the current
\* members of the party, one entry each, and flags as leader exactly the
\* entry whose id is the stored leader id.
C29_RosterIsCurrentMembers ==
  [][\A i \in 1..Len(out') :
       out'[i].e = "party-members" =>
         /\ {m.id : m \in out'[i].members} = members'[out'[i].p]
         /\ \A m \in out'[i].members :
              m.leader <=> (m.id = leader'[out'[i].p])]_vars

----------------------------------------------------------------------------
(* Claims about the removal of a member (SpecKick) *)

\* the step is removePartyMember going on from its first await: it is the
\* only step that emits user-leaving-party
removes ==
  /\ awaiting("kickName")
  /\ out' # <<>>
  /\ out'[1].e = "user-leaving-party"

\* C30: removePartyMember of a member U of party P takes U out of P's member
\* set, deletes U's display name and U's score entry (the entry of the hash
\* that scorecards are read from), and leaves the leader and the
\* membership, names and scores of everybody else as they were; a
\* scorecard broadcast after the removal has no entry for U (nobody joins
\* during this quiz, so an id outside the member set is a removed member).
C30_RemoveMemberFrameEffect ==
  [][/\ removes =>
          LET u == Head(replies).u
              p == Head(replies).p IN
          /\ members' = [members EXCEPT ![p] = @ \ {u}]
          /\ displayNames' = [displayNames EXCEPT ![p][u] = Nil]
          /\ partyScore' = [partyScore EXCEPT ![p] = @ \ {u}]
          /\ ~inSeq(u, scoreKeys')
          /\ \A v \in Users \ {u} : inSeq(v, scoreKeys') <=> inSeq(v, scoreKeys)
          /\ leader' = leader
          /\ \A v \in Users \ {u} : scoreOf'[v] = scoreOf[v]
     /\ \A i \in 1..Len(out') :
          out'[i].e = "updated-scorecard" =>
            \A j \in 1..Len(out'[i].card) :
              out'[i].card[j].id \in members'[out'[i].p]]_vars

----------------------------------------------------------------------------
(* Claims about display names (SpecParty) *)

\* C31: assignDisplayName never overwrites a name the user already has: when
\* it writes the name of user U in party P, a name that U has in P at that
\* moment (set by an earlier join or by change-display-name, also one
\* written after assignDisplayName read the hash) stays as it is.
C31_AssignedNameNotOverwritten ==
  [][resumes("assignName") =>
       LET h == Head(replies) IN
       displayNames[h.p][h.u] # Nil =>
         displayNames'[h.p][h.u] = displayNames[h.p][h.u]]_vars

----------------------------------------------------------------------------
(* Claims about a round whose party changes (SpecKickFair) *)

\* every live member of the quiz's party has a counted answer for question q,
\* which is the question being asked
allLiveAnswered(q) ==
  /\ stage = "collect"
  /\ qn = q
  /\ members[quizOf.p] # {}
  /\ \A u \in members[quizOf.p] : countedBy[q][u] > 0

\* C32: once every live member of the party has a counted answer for the
\* current question, the round resolves without waiting for the timer: it
\* resolves in every behaviour in which the store replies, whether or not
\* the interval ever ticks.
C32_ResolvesOnceAllLiveMembersAnswered ==
  \A q \in Questions : [](allLiveAnswered(q) => <>(resolvedBy[q] # "none"))

----------------------------------------------------------------------------
(* Claims about a barrier whose party changes (SpecReadyFair) *)

\* barrier b is pending, a member it waits for was removed from the party
\* without having acknowledged, and every remaining live member has
\* acknowledged
unblocked(b) ==
  /\ b <= Len(barriers)
  /\ ~barriers[b].resolved
  /\ \E u \in barriers[b].allUsers :
       u \notin members[barriers[b].p] /\ u \notin readyIds(b)
  /\ members[barriers[b].p] # {}
  /\ members[barriers[b].p] \subseteq readyIds(b)

\* C33: a barrier that is pending when a member who has not acknowledged is
\* removed completes once every remaining live member has acknowledged.
C33_DepartureUnblocksBarrier ==
  \A b \in 1..MaxStarts :
    [](unblocked(b) => <>(b <= Len(barriers) /\ barriers[b].resolved))

----------------------------------------------------------------------------
(* Claims about the handles of a round (SpecQuiz) *)

\* the event-coordination handles registered for question q: the
\* answer-received listener, the all-answers-received listeners, the
\* per-connection answer handlers and the running interval
handles(q) ==
  (IF ansListener[q] THEN 1 ELSE 0)
    + (IF allAnsOnce[q] THEN 2 ELSE 0)
    + (IF timerOn[q] THEN 1 ELSE 0)
    + Cardinality({s \in Sockets : q \in ansHandler[s]})

\* C34: a round that has reached the reveal, by the timer or by the answers,
\* has no handle left registered.
C34_NoHandleLeftAfterReveal ==
  \A q \in Questions : resolvedBy[q] # "none" => handles(q) = 0

----------------------------------------------------------------------------
(* Claims about the start of a quiz (SpecStart) *)

\* the barrier of the start-quiz has broadcast all-users-ready
barrierCompleted == barriers # <<>> /\ barriers[1].resolved

\* C35: a quiz never starts before its barrier completes: the fetch is
\* issued only by the step that broadcasts all-users-ready, the new-quiz-id
\* broadcast, the seeding of the scores and the first new-question happen
\* in steps after that broadcast, and new-quiz-id is broadcast only by the
\* step in which the questions arrive, never with a failed fetch.
C35_QuizStartsAfterBarrier ==
  [][/\ (stage = "idle" /\ stage' # "idle") =>
          stage' = "fetch" /\ "all-users-ready" \in kinds(out')
     /\ stage' # "idle" => barriers' # <<>> /\ barriers'[1].resolved
     /\ "new-quiz-id" \in kinds(out') \/ "new-question" \in kinds(out')
          => barrierCompleted
     /\ scoreKeys' # scoreKeys => barrierCompleted
     /\ "new-quiz-id" \in kinds(out') =>
          /\ stage = "fetch"
          /\ \A q \in Questions : questions'[q] # <<>>
          /\ "error" \notin kinds(out')]_vars

\* the first question was broadcast after a start-quiz whose barrier both
\* members acknowledged
C35_Witness ==
  /\ sent["start"] = 1
  /\ barrierCompleted
  /\ readyIds(1) = {"A", "B"}
  /\ scoreKeys # <<>>
  /\ stage = "collect"
  /\ "new-question" \in kinds(out)

----------------------------------------------------------------------------
(* Claims about the countdown (SpecQuiz) *)

\* C36: the timer-update values of a question start at the time limit in
\* seconds, go down by exactly 1 per tick and are never negative (nor
\* anything but a number); the value 0 is broadcast by the tick that stops
\* the interval, and a stopped interval broadcasts nothing more.
C36_CountdownToZero ==
  [][\A i \in 1..Len(out') :
       out'[i].e = "timer-update" =>
         LET q == out'[i].q
             v == out'[i].secondsLeft IN
         /\ v # NaN
         /\ v >= 0
         /\ IF timerOn[q]
              THEN v = secondsLeft[q] - 1
              ELSE v = dividedBy(quizOf.questionTimeout, 1000) /\ timerOn'[q]
         /\ v = 0 /\ timerOn[q] => ~timerOn'[q]]_vars

----------------------------------------------------------------------------
(* Claims about the party a round is compared with (SpecTwo) *)

\* C37: the all-answers condition of the quiz is evaluated against the
\* member set of the party that owns the quiz: every listener that has
\* counted an answer and is about to read a member set reads that party's,
\* whatever partyId the answer carried.
C37_ComparedWithOwningParty ==
  \A i \in 1..Len(replies) :
    replies[i].k = "answerCount" => replies[i].p = quizOf.p

----------------------------------------------------------------------------
(* Claims about answers of users who are not members (SpecKicked) *)

\* C38: an answer submitted by a user who is not in the member set of the
\* party at that moment does not increment the answer counter and changes
\* no score and no correct-answerer record (so it cannot resolve the round).
C38_OnlyMembersCount ==
  [][(/\ sent'["answer"] # sent["answer"]
      /\ suspendedLast.u \notin members[suspendedLast.p]) =>
        /\ answers' = answers
        /\ scoreOf' = scoreOf
        /\ scoreKeys' = scoreKeys
        /\ correctUsers' = correctUsers]_vars

----------------------------------------------------------------------------
(* Claims about the bounds of scores and counters (SpecQuiz) *)

\* the number of questions of the quiz broadcast so far
broadcastSoFar ==
  CASE stage \in {"idle", "fetch"} -> 0
    [] stage = "pre" -> qn - 1
    [] OTHER -> qn

\* the users for whom an answer to question q was submitted
submitters(q) == {u \in Users : countedBy[q][u] > 0}

\* C39: at every moment of the quiz every user's score is between 0 and the
\* number of questions broadcast so far, and the answer counter of a
\* question is at most the number of distinct users who submitted an
\* answer for it.
C39_ScoresAndCountersBounded ==
  /\ \A u \in Users : 0 <= scoreOf[u] /\ scoreOf[u] <= broadcastSoFar
  /\ \A q \in Questions : answers[q] <= Cardinality(submitters(q))
====
